---- MODULE Spec2Model ----
(***************************************************************************)
(* A model of revive: the batch driver (revive.py: main, process_file),    *)
(* the profile registry (cameras/__init__.py), the Sony RX1R profile       *)
(* (cameras/sony_rx1r.py), metadata reading (core/utils.py) and the        *)
(* three generic stages (core/denoise.py, core/enhance.py,                 *)
(* core/sharpen.py).                                                       *)
(*                                                                         *)
(* Python values: None is the empty tuple << >> and a present value v is   *)
(* the one-element tuple <<v>>.  A make or model string is a tuple of      *)
(* one-character strings, so that upper() and the substring test `in` are  *)
(* computed and not assumed.                                               *)
(***************************************************************************)
EXTENDS Integers, Sequences, FiniteSets, TLC

VARIABLES
    args,            \* the parsed command line (argparse namespace)
    input_exists,    \* args.input.exists()
    raw_files,       \* len(get_raw_files(args.input)); the files are 1..raw_files
    pc,              \* position in main / process_file
    status,          \* main's return value: << >> while running, <<0>> or <<1>>
    printed,         \* what main printed about profiles: listing lines, lookup error
    camera_profile,  \* main's camera_profile: << >> or <<identifier>>
    denoiser,        \* the batch Denoiser's fields
    idx,             \* the for loop's position in raw_files (1-based)
    successful,
    failed,
    attempted,       \* history: the files handed to process_file, in order
    reported,        \* history: the files for which "Error: ..." was printed
    cur,             \* the file being processed: process_file's locals
    probe,           \* a call of get_recommended_denoise: its argument and result
    img,             \* the raster handed to a stage (one observed pixel of it)
    res              \* the stage call made on img: its configuration and outcome

batchVars == <<args, input_exists, raw_files, pc, status, printed, camera_profile,
               denoiser, idx, successful, failed, attempted, reported, cur>>

stageVars == <<probe, img, res>>

vars == <<batchVars, stageVars>>

----------------------------------------------------------------------------
(* Bounds of the model *)

MaxFiles == 2

----------------------------------------------------------------------------
(* Python's None / truthiness *)

None == << >>
Some(v) == <<v>>
IsNone(o) == o = << >>
Val(o) == o[1]

\* str.upper() on the characters that occur in the metadata samples
LowerChars == <<"a","b","c","d","e","f","g","h","i","j","k","l","m",
                "n","o","p","q","r","s","t","u","v","w","x","y","z">>
UpperChars == <<"A","B","C","D","E","F","G","H","I","J","K","L","M",
                "N","O","P","Q","R","S","T","U","V","W","X","Y","Z">>

ToUpper(c) ==
    IF \E i \in 1..Len(LowerChars) : LowerChars[i] = c
    THEN UpperChars[CHOOSE i \in 1..Len(LowerChars) : LowerChars[i] = c]
    ELSE c

Upper(s) == [i \in 1..Len(s) |-> ToUpper(s[i])]

\* Python's `p in s` on strings
Contains(p, s) ==
    \E i \in 0..(Len(s) - Len(p)) : SubSeq(s, i + 1, i + Len(p)) = p

----------------------------------------------------------------------------
(* The string literals of the source, as character tuples *)

S_SONY == <<"S","O","N","Y">>
S_RX1R == <<"R","X","1","R">>
S_II == <<"I","I">>
S_RX1R_II == <<"R","X","1","R"," ","I","I">>
S_RX1RM2 == <<"R","X","1","R","M","2">>
S_RX1 == <<"R","X","1">>
S_A7R == <<"A","7","R">>
S_CANON == <<"C","A","N","O","N">>
S_5D_MARK_II == <<"5","D"," ","M","A","R","K"," ","I","I">>
S_5D2 == <<"5","D","2">>
S_6D == <<"6","D">>
S_NIKON == <<"N","I","K","O","N">>
S_D700 == <<"D","7","0","0">>
S_D600 == <<"D","6","0","0">>
S_D610 == <<"D","6","1","0">>
S_Sony == <<"S","o","n","y">>      \* SonyRX1R.make
S_Empty == << >>                   \* ''

(* Metadata samples: the make and model strings files may carry *)

Makes ==
    { S_SONY, S_Sony, <<"s","o","n","y"," ","c","o","r","p">>, <<"C","a","n","o","n">>, <<"N","I","K","O","N">>, S_Empty }
Models ==
    { <<"D","S","C","-","R","X","1","R">>,
      <<"d","s","c","-","r","x","1","r">>,
      <<"D","S","C","-","R","X","1","R","M","2">>,
      <<"D","S","C","-","R","X","1","R"," ","I","I">>,
      <<"D","S","C","-","R","X","1">>,
      <<"A","7","R">>,
      <<"E","O","S"," ","6","D">>,
      <<"E","O","S"," ","5","D","2">>,
      <<"D","7","0","0">>,
      <<"D","6","1","0">>,
      S_Empty }

----------------------------------------------------------------------------
(* cameras/sony_rx1r.py, cameras/base.py, cameras/__init__.py *)

\* Profile coefficients are kept in thousandths (barrel_distortion = -0.008 is -8).
SonyRX1R ==
    [ name                  |-> "Sony RX1R",
      make                  |-> S_Sony,
      model                 |-> S_RX1R,
      barrel_distortion     |-> -8,
      vignette_strength     |-> 150,
      italian_flag_strength |-> 0,
      shadow_warmth         |-> 0,
      green_blue_shift      |-> 0 ]

\* CameraProfile.matches(make, model)
Matches(profile, make, model) ==
    /\ Contains(Upper(profile.make), Upper(make))
    /\ Contains(Upper(profile.model), Upper(model))

\* SonyRX1R.get_recommended_denoise(iso): a mutant with the first rung at < 400
GetRecommendedDenoise_OffByOne(iso) ==
    IF iso < 400 THEN "off"
    ELSE IF iso <= 1600 THEN "light"
    ELSE IF iso <= 6400 THEN "medium"
    ELSE "strong"

\* SonyRX1R.get_recommended_denoise(iso)
GetRecommendedDenoise(iso) ==
    IF iso <= 400 THEN "off"
    ELSE IF iso <= 1600 THEN "light"
    ELSE IF iso <= 6400 THEN "medium"
    ELSE "strong"

\* The registry CAMERAS: identifier -> profile class; list(CAMERAS.keys())
RegisteredIds == <<"sony_rx1r">>

CAMERAS == [id \in {RegisteredIds[i] : i \in 1..Len(RegisteredIds)} |-> SonyRX1R]

\* list_cameras()
ListCameras == RegisteredIds

\* A mutant of get_camera: an unknown identifier falls back to the first
\* registered profile
GetCamera_Fallback(name) ==
    [ ok |-> TRUE,
      profile |-> IF name \in DOMAIN CAMERAS THEN CAMERAS[name]
                  ELSE CAMERAS[RegisteredIds[1]] ]

\* get_camera(name): the profile instance, or the ValueError it raises.  The
\* error's message is f"Unknown camera: {name}. Available: {available}".
GetCamera(name) ==
    IF name \notin DOMAIN CAMERAS
    THEN [ ok |-> FALSE,
           error |-> [ type |-> "ValueError", unknown |-> name,
                       available |-> RegisteredIds ] ]
    ELSE [ ok |-> TRUE, profile |-> CAMERAS[name] ]

----------------------------------------------------------------------------
(* core/utils.py *)

\* What is on disk for one file, as far as read_exif can tell:
\*   rawpy : rawpy.imread opens the file (else it raises, and is swallowed)
\*   tags  : exifread.process_file reads the file (else it raises, swallowed)
\*   make, model : the camera strings both readers report
\*   iso   : << >> when no ISO tag is there or int() fails on it, else <<n>>
FileFacts(makes, models, isos) ==
    [ rawpy : BOOLEAN, tags : BOOLEAN, make : makes, model : models, iso : isos ]

\* read_exif(raw_path): the dictionary, each key << >> when absent.  Make and
\* Model come from rawpy, or else from the tags; ISO only from the tags.
ReadExif(f) ==
    [ Make  |-> IF f.rawpy \/ f.tags THEN Some(f.make) ELSE None,
      Model |-> IF f.rawpy \/ f.tags THEN Some(f.model) ELSE None,
      ISO   |-> IF f.tags THEN f.iso ELSE None ]

\* Whether read_exif swallowed an exception while reading the file
ExifReadFailed(f) == ~f.rawpy \/ ~f.tags

\* dict.get(key, default)
GetOr(o, default) == IF IsNone(o) THEN default ELSE Val(o)

\* get_iso(raw_path)
GetIso(f) == ReadExif(f).ISO

\* A mutant of detect_camera: the registered profile's own matches() decides
DetectCamera_ByMatches(f) ==
    LET exif == ReadExif(f)
    IN  IF Matches(SonyRX1R, GetOr(exif.Make, S_Empty), GetOr(exif.Model, S_Empty))
        THEN Some("sony_rx1r")
        ELSE None

\* detect_camera(raw_path): the identifier, or None
DetectCamera(f) ==
    LET exif  == ReadExif(f)
        make  == Upper(GetOr(exif.Make, S_Empty))
        model == Upper(GetOr(exif.Model, S_Empty))
        sony  == IF Contains(S_RX1R, model) /\ ~Contains(S_II, model)
                     THEN Some("sony_rx1r")
                 ELSE IF Contains(S_RX1R_II, model) \/ Contains(S_RX1RM2, model)
                     THEN Some("sony_rx1r2")
                 ELSE IF Contains(S_RX1, model) THEN Some("sony_rx1")
                 ELSE IF Contains(S_A7R, model) THEN Some("sony_a7r")
                 ELSE None
        canon == IF Contains(S_5D_MARK_II, model) \/ Contains(S_5D2, model)
                     THEN Some("canon_5d2")
                 ELSE IF Contains(S_6D, model) THEN Some("canon_6d")
                 ELSE None
        nikon == IF Contains(S_D700, model) THEN Some("nikon_d700")
                 ELSE IF Contains(S_D600, model) \/ Contains(S_D610, model)
                     THEN Some("nikon_d610")
                 ELSE None
    IN  IF Contains(S_SONY, make) /\ ~IsNone(sony) THEN sony
        ELSE IF Contains(S_CANON, make) /\ ~IsNone(canon) THEN canon
        ELSE IF Contains(S_NIKON, make) /\ ~IsNone(nikon) THEN nikon
        ELSE None

----------------------------------------------------------------------------
(* revive.py: the command line *)

Strengths == {"off", "light", "medium", "strong", "auto"}

\* --camera: absent, empty, a registered identifier, an unregistered one
CameraArgs == { None, Some(""), Some("sony_rx1r"), Some("nikon_d700") }

\* Enhancer parameters are kept in hundredths (contrast 1.1 is 110), exposure in
\* whole stops; Sharpener strength in hundredths.
DefaultEnhancer ==
    [ contrast |-> 110, exposure |-> 0, saturation |-> 105,
      shadows |-> 0, highlights |-> 0, apply_curve |-> TRUE ]

\* The command lines of the model: --denoise off, a concrete strength, auto
ArgsSet ==
    [ camera : CameraArgs, cameras : BOOLEAN, denoise : {"off", "strong", "auto"},
      sharpen : {0, 100} ]

\* Python truthiness of args.camera (None and '' are falsy) and of iso (None, 0)
TruthyStr(o) == ~IsNone(o) /\ Val(o) # ""
TruthyInt(o) == ~IsNone(o) /\ Val(o) # 0

\* The metadata of the files of a batch
BatchMakes == { S_SONY }
BatchModels == { <<"D","S","C","-","R","X","1","R">>,
                 <<"D","S","C","-","R","X","1","R"," ","I","I">> }
BatchIsos == { None, Some(0), Some(400), Some(800) }
BatchFacts == { f \in FileFacts(BatchMakes, BatchModels, BatchIsos) : f.rawpy = f.tags }

\* process_file's locals before a file is taken up
NoFile ==
    [ file |-> 0, facts |-> << >>, profile |-> None, iso |-> None,
      rgb |-> << >>, calls |-> << >>, raised |-> "", result |-> None ]

\* The steps of process_file's try block, in program order
Steps == <<"get_iso", "decode", "correct", "denoise", "enhance", "sharpen", "save">>

----------------------------------------------------------------------------
(* revive.py: main *)

Init ==
    /\ args \in ArgsSet
    /\ input_exists \in BOOLEAN
    /\ raw_files \in 0..MaxFiles
    /\ pc = "main"
    /\ status = None
    /\ printed = << >>
    /\ camera_profile = None
    /\ denoiser = None
    /\ idx = 0
    /\ successful = 0
    /\ failed = 0
    /\ attempted = << >>
    /\ reported = << >>
    /\ cur = NoFile
    /\ probe = None
    /\ img = None
    /\ res = None

\* main, lines 166-172: --cameras lists the registry and returns 0
ListCamerasRun ==
    /\ pc = "main"
    /\ args.cameras
    /\ printed' = [i \in 1..Len(ListCameras) |->
                     [ id |-> ListCameras[i],
                       name |-> GetCamera(ListCameras[i]).profile.name ]]
    /\ status' = Some(0)
    /\ pc' = "exit"
    /\ UNCHANGED <<args, input_exists, raw_files, camera_profile, denoiser, idx,
                   successful, failed, attempted, reported, cur>>
    /\ UNCHANGED stageVars

\* main, lines 174-184: the input directory and the list of RAW files
ValidateInput ==
    /\ pc = "main"
    /\ ~args.cameras
    /\ IF ~input_exists \/ raw_files = 0
       THEN /\ status' = Some(1)
            /\ pc' = "exit"
       ELSE /\ status' = status
            /\ pc' = "load"
    /\ UNCHANGED <<args, input_exists, raw_files, printed, camera_profile, denoiser,
                   idx, successful, failed, attempted, reported, cur>>
    /\ UNCHANGED stageVars

\* main, lines 186-194: the explicit profile
LoadProfile ==
    /\ pc = "load"
    /\ IF TruthyStr(args.camera)
       THEN LET r == GetCamera(Val(args.camera))
            IN  IF r.ok
                THEN /\ camera_profile' = Some(r.profile)
                     /\ printed' = Append(printed, [using |-> r.profile.name])
                     /\ status' = status
                     /\ pc' = "init"
                ELSE /\ camera_profile' = camera_profile
                     /\ printed' = Append(printed, r.error)
                     /\ status' = Some(1)
                     /\ pc' = "exit"
       ELSE /\ pc' = "init"
            /\ UNCHANGED <<camera_profile, printed, status>>
    /\ UNCHANGED <<args, input_exists, raw_files, denoiser, idx, successful, failed,
                   attempted, reported, cur>>
    /\ UNCHANGED stageVars

\* main, lines 200-215: the processors and the counters
InitProcessors ==
    /\ pc = "init"
    /\ denoiser' = Some([strength |-> args.denoise, preserve_detail |-> TRUE])
    /\ successful' = 0
    /\ failed' = 0
    /\ idx' = 1
    /\ pc' = "loop"
    /\ UNCHANGED <<args, input_exists, raw_files, status, printed, camera_profile,
                   attempted, reported, cur>>
    /\ UNCHANGED stageVars

\* main, lines 218-227: the profile of one file
ResolveProfile(explicit, f) ==
    IF ~IsNone(explicit) THEN explicit
    ELSE LET detected == DetectCamera(f)
         IN  IF ~IsNone(detected) /\ GetCamera(Val(detected)).ok
             THEN Some(GetCamera(Val(detected)).profile)
             ELSE None

\* main, lines 217-229: the loop takes up the next file and calls process_file
BeginFile(f) ==
    /\ pc = "loop"
    /\ idx <= raw_files
    /\ cur' = [NoFile EXCEPT !.file = idx, !.facts = f,
                             !.profile = ResolveProfile(camera_profile, f)]
    /\ attempted' = Append(attempted, idx)
    /\ pc' = "get_iso"
    /\ UNCHANGED <<args, input_exists, raw_files, status, printed, camera_profile,
                   denoiser, idx, successful, failed, reported>>
    /\ UNCHANGED stageVars

\* main, lines 246-252: the loop is over
Finish ==
    /\ pc = "loop"
    /\ idx > raw_files
    /\ status' = Some(0)
    /\ pc' = "exit"
    /\ UNCHANGED <<args, input_exists, raw_files, printed, camera_profile, denoiser,
                   idx, successful, failed, attempted, reported, cur>>
    /\ UNCHANGED stageVars

----------------------------------------------------------------------------
(* revive.py: process_file.  At this level a raster is the term that names  *)
(* how it was made: <<"decode">> is the decoder's output and a stage that   *)
(* computes a new raster appends its name; a stage that returns the very    *)
(* raster it was given leaves the term as it is.                            *)

Out(stage, raster) == Append(raster, stage)

Call(stage, input, output, how) ==
    [ stage |-> stage, input |-> input, output |-> output, how |-> how ]

\* Denoiser.apply(image), lines 30-60, on terms: 'off' returns the image itself
\* (h is never 0 for any other strength); how: whether the content-based
\* estimate (_estimate_noise_strength) chose h
DenoiserApply(d, image) ==
    [ output |-> IF d.strength = "off" THEN image ELSE Out("denoise", image),
      how |-> [ strength |-> d.strength, estimated |-> d.strength = "auto" ] ]

\* Sharpener.apply(image), lines 18-29, on terms
SharpenerApply(strength, image) ==
    IF strength = 0 THEN image ELSE Out("sharpen", image)

\* line 78: iso = get_iso(raw_path) if camera_profile else None
GetIsoStep ==
    /\ pc = "get_iso"
    /\ cur' = [cur EXCEPT !.iso = IF ~IsNone(cur.profile) THEN GetIso(cur.facts)
                                  ELSE None]
    /\ pc' = "decode"
    /\ UNCHANGED <<args, input_exists, raw_files, status, printed, camera_profile,
                   denoiser, idx, successful, failed, attempted, reported>>
    /\ UNCHANGED stageVars

\* line 81: rgb = raw_processor.process(raw_path)
DecodeStep ==
    /\ pc = "decode"
    /\ cur' = [cur EXCEPT !.rgb = <<"decode">>,
                          !.calls = Append(@, Call("decode", << >>, <<"decode">>, << >>))]
    /\ pc' = "correct"
    /\ UNCHANGED <<args, input_exists, raw_files, status, printed, camera_profile,
                   denoiser, idx, successful, failed, attempted, reported>>
    /\ UNCHANGED stageVars

\* A mutant of CorrectStep: the correction is applied whether or not a profile
\* was resolved
CorrectStep_Always ==
    /\ pc = "correct"
    /\ cur' = [cur EXCEPT !.rgb = Out("correct", cur.rgb),
                          !.calls = Append(@, Call("correct", cur.rgb,
                                                   Out("correct", cur.rgb), << >>))]
    /\ pc' = "denoise"
    /\ UNCHANGED <<args, input_exists, raw_files, status, printed, camera_profile,
                   denoiser, idx, successful, failed, attempted, reported>>
    /\ UNCHANGED stageVars

\* lines 84-85: if camera_profile: rgb = camera_profile.apply_corrections(rgb, iso=iso)
CorrectStep ==
    /\ pc = "correct"
    /\ IF ~IsNone(cur.profile)
       THEN cur' = [cur EXCEPT !.rgb = Out("correct", cur.rgb),
                               !.calls = Append(@, Call("correct", cur.rgb,
                                                        Out("correct", cur.rgb), << >>))]
       ELSE cur' = cur
    /\ pc' = "denoise"
    /\ UNCHANGED <<args, input_exists, raw_files, status, printed, camera_profile,
                   denoiser, idx, successful, failed, attempted, reported>>
    /\ UNCHANGED stageVars

\* A mutant of SmartDenoiser: the profile's recommendation is never taken
SmartDenoiser_NoOverride(profile, iso, d) == d

\* lines 88-93: the Denoiser that process_file applies to this file
SmartDenoiser(profile, iso, d) ==
    IF ~IsNone(profile) /\ TruthyInt(iso) /\ d.strength = "auto"
    THEN [ strength |-> GetRecommendedDenoise(Val(iso)), preserve_detail |-> TRUE ]
    ELSE d

\* lines 88-93: denoised = ....apply(rgb)
DenoiseStep ==
    /\ pc = "denoise"
    /\ LET d == SmartDenoiser(cur.profile, cur.iso, Val(denoiser))
           r == DenoiserApply(d, cur.rgb)
       IN  cur' = [cur EXCEPT !.rgb = r.output,
                              !.calls = Append(@, Call("denoise", cur.rgb, r.output, r.how))]
    /\ pc' = "enhance"
    /\ UNCHANGED <<args, input_exists, raw_files, status, printed, camera_profile,
                   denoiser, idx, successful, failed, attempted, reported>>
    /\ UNCHANGED stageVars

\* line 96: enhanced = enhancer.apply(denoised)
EnhanceStep ==
    /\ pc = "enhance"
    /\ cur' = [cur EXCEPT !.rgb = Out("enhance", cur.rgb),
                          !.calls = Append(@, Call("enhance", cur.rgb,
                                                   Out("enhance", cur.rgb), << >>))]
    /\ pc' = "sharpen"
    /\ UNCHANGED <<args, input_exists, raw_files, status, printed, camera_profile,
                   denoiser, idx, successful, failed, attempted, reported>>
    /\ UNCHANGED stageVars

\* line 99: sharpened = sharpener.apply(enhanced)
SharpenStep ==
    /\ pc = "sharpen"
    /\ LET o == SharpenerApply(args.sharpen, cur.rgb)
       IN  cur' = [cur EXCEPT !.rgb = o,
                              !.calls = Append(@, Call("sharpen", cur.rgb, o, << >>))]
    /\ pc' = "save"
    /\ UNCHANGED <<args, input_exists, raw_files, status, printed, camera_profile,
                   denoiser, idx, successful, failed, attempted, reported>>
    /\ UNCHANGED stageVars

\* lines 102-106: save_image(sharpened, ...); return output_path
SaveStep ==
    /\ pc = "save"
    /\ cur' = [cur EXCEPT !.result = Some(<<cur.file, "_revived">>),
                          !.calls = Append(@, Call("save", cur.rgb, << >>, << >>))]
    /\ pc' = "count"
    /\ UNCHANGED <<args, input_exists, raw_files, status, printed, camera_profile,
                   denoiser, idx, successful, failed, attempted, reported>>
    /\ UNCHANGED stageVars

\* Whether the statement at pc runs code that can raise: read_exif swallows
\* every exception of the metadata read, a skipped correction runs nothing, and
\* a stage that is off returns its argument at once.
CanRaise ==
    \/ pc \in {"decode", "enhance", "save"}
    \/ pc = "correct" /\ ~IsNone(cur.profile)
    \/ pc = "denoise" /\ SmartDenoiser(cur.profile, cur.iso, Val(denoiser)).strength # "off"
    \/ pc = "sharpen" /\ args.sharpen # 0

\* A mutant of Raise: the exception is not caught in process_file and ends the run
Raise_Aborts ==
    /\ CanRaise
    /\ cur' = [cur EXCEPT !.raised = pc, !.result = None]
    /\ reported' = Append(reported, cur.file)
    /\ status' = Some(1)
    /\ pc' = "exit"
    /\ UNCHANGED <<args, input_exists, raw_files, printed, camera_profile,
                   denoiser, idx, successful, failed, attempted>>
    /\ UNCHANGED stageVars

\* lines 108-110: except Exception as e: print(f"  Error: ..."); return None
Raise ==
    /\ CanRaise
    /\ cur' = [cur EXCEPT !.raised = pc, !.result = None]
    /\ reported' = Append(reported, cur.file)
    /\ pc' = "count"
    /\ UNCHANGED <<args, input_exists, raw_files, status, printed, camera_profile,
                   denoiser, idx, successful, failed, attempted>>
    /\ UNCHANGED stageVars

\* main, lines 241-244, and the loop's step to the next file
Count ==
    /\ pc = "count"
    /\ IF ~IsNone(cur.result)
       THEN successful' = successful + 1 /\ failed' = failed
       ELSE failed' = failed + 1 /\ successful' = successful
    /\ idx' = idx + 1
    /\ pc' = "loop"
    /\ UNCHANGED <<args, input_exists, raw_files, status, printed, camera_profile,
                   denoiser, attempted, reported, cur>>
    /\ UNCHANGED stageVars

Next ==
    \/ ListCamerasRun
    \/ ValidateInput
    \/ LoadProfile
    \/ InitProcessors
    \/ \E f \in BatchFacts : BeginFile(f)
    \/ GetIsoStep
    \/ DecodeStep
    \/ CorrectStep
    \/ DenoiseStep
    \/ EnhanceStep
    \/ SharpenStep
    \/ SaveStep
    \/ Raise
    \/ Count
    \/ Finish

Spec == Init /\ [][Next]_vars

----------------------------------------------------------------------------
(* Auto-detection over every make/model sample: main up to the point where  *)
(* the file's profile is resolved                                           *)

AllFacts == FileFacts(Makes, Models, {None, Some(800)})

NextDetect ==
    \/ ValidateInput
    \/ LoadProfile
    \/ InitProcessors
    \/ \E f \in AllFacts : BeginFile(f)

SpecDetect == Init /\ [][NextDetect]_vars

----------------------------------------------------------------------------
(* Claims about the batch driver *)

InFile == pc \in {"get_iso", "decode", "correct", "denoise", "enhance", "sharpen",
                  "save", "count"}

\* The stages process_file is to call, in order, given the file's profile
ExpectedStages(profile) ==
    IF IsNone(profile)
    THEN <<"decode", "denoise", "enhance", "sharpen", "save">>
    ELSE <<"decode", "correct", "denoise", "enhance", "sharpen", "save">>

\* C1: process_file calls the stages in the order correction, denoise, tone
\* enhancement, sharpening (after the decode, before the save); each stage is
\* given exactly the raster the stage before it returned; the correction is
\* called if and only if a profile was resolved for the file, and with no
\* profile the denoise stage is given the decoded raster itself.
C1_StageOrder ==
    InFile =>
        LET exp == ExpectedStages(cur.profile)
            calls == cur.calls
        IN  /\ Len(calls) <= Len(exp)
            /\ \A k \in 1..Len(calls) :
                  /\ calls[k].stage = exp[k]
                  /\ k > 1 => calls[k].input = calls[k - 1].output
            /\ (\E k \in 1..Len(calls) : calls[k].stage = "denoise") =>
                  ((\E k \in 1..Len(calls) : calls[k].stage = "correct")
                      <=> ~IsNone(cur.profile))
            /\ \A k \in 1..Len(calls) :
                  (calls[k].stage = "denoise" /\ IsNone(cur.profile))
                      => calls[k].input = <<"decode">>
            /\ (pc = "count" /\ cur.raised = "") => Len(calls) = Len(exp)

\* C1's case: a file with a resolved profile went through all four stages
C1_Witness ==
    /\ pc = "count"
    /\ ~IsNone(cur.profile)
    /\ ~IsNone(cur.result)
    /\ Len(cur.calls) = 6
    /\ cur.calls[2].stage = "correct"
    /\ cur.calls[5].stage = "sharpen"

\* The files 1..n in list order
UpTo(n) == [i \in 1..n |-> i]

\* What C2 states about the loop, whatever counts as a failure of a file: every
\* file is handed to process_file once, in list order, a file is counted failed
\* if and only if its error was printed, and when the loop has ended the two
\* counters add up to the number of files (idx > 0: the loop was entered).
BatchAccounting ==
    /\ attempted = UpTo(Len(attempted))
    /\ InFile => Len(attempted) = idx /\ cur.file = idx
    /\ pc = "loop" => Len(attempted) = idx - 1
    /\ pc = "loop" => /\ successful + failed = idx - 1
                      /\ failed = Len(reported)
    /\ \A i \in 1..Len(reported) : \A j \in 1..Len(reported) :
          i < j => reported[i] < reported[j]
    /\ (pc = "exit" /\ idx > 0) =>
          /\ status = Some(0)
          /\ successful + failed = raw_files
          /\ attempted = UpTo(raw_files)
          /\ failed = Len(reported)

\* C2 as stated: a failure in any step of a file, the metadata read included,
\* is reported and counted for that file, and the batch goes on.
C2_AnyFailureReported ==
    /\ BatchAccounting
    /\ pc = "count" =>
          ((cur.raised # "" \/ ExifReadFailed(cur.facts))
              => /\ IsNone(cur.result)
                 /\ Len(reported) > 0
                 /\ reported[Len(reported)] = cur.file)

\* C2, amended: a failure raised by the decode, the correction, the denoise, the
\* enhancement, the sharpening or the save of a file is reported and counted
\* for that file only, and a file none of whose steps raised is counted
\* successful even when its metadata could not be read (read_exif swallows
\* that failure: it is neither reported nor counted); every file of the list
\* is attempted exactly once, in list order, and when the loop ends
\* successful + failed equals the number of files.
C2_FailureIsolated ==
    /\ BatchAccounting
    /\ pc = "count" =>
          /\ cur.raised # "" =>
                /\ IsNone(cur.result)
                /\ Len(reported) > 0
                /\ reported[Len(reported)] = cur.file
          /\ cur.raised = "" =>
                /\ ~IsNone(cur.result)
                /\ \A i \in 1..Len(reported) : reported[i] # cur.file

\* C2's case: a batch in which a file failed and a later file was still
\* processed to the end
C2_Witness ==
    /\ pc = "exit"
    /\ status = Some(0)
    /\ raw_files = 2
    /\ reported = <<1>>
    /\ failed = 1
    /\ successful = 1

\* The denoise call of the current file, once made
DenoiseCalls == { k \in 1..Len(cur.calls) : cur.calls[k].stage = "denoise" }

\* C3 as stated: with a resolved profile and --denoise auto, the denoise stage
\* runs at the strength the profile recommends for the file's ISO and the
\* content-based estimate does not decide.
C3_ProfileAlwaysDecides ==
    (InFile /\ ~IsNone(cur.profile) /\ Val(denoiser).strength = "auto") =>
        \A k \in DenoiseCalls :
            /\ ~cur.calls[k].how.estimated
            /\ ~IsNone(cur.iso)
            /\ cur.calls[k].how.strength = GetRecommendedDenoise(Val(cur.iso))

\* C3, amended: with a resolved profile, --denoise auto and an ISO that was read
\* from the file and is not 0, the denoise stage runs at the strength the
\* profile recommends for that ISO and the content-based estimate is not used;
\* when the ISO is missing or 0 the batch Denoiser runs as configured, so the
\* content-based estimate decides.
C3_ProfileDecidesWhenIsoKnown ==
    (InFile /\ ~IsNone(cur.profile) /\ Val(denoiser).strength = "auto") =>
        \A k \in DenoiseCalls :
            IF TruthyInt(cur.iso)
            THEN /\ ~cur.calls[k].how.estimated
                 /\ cur.calls[k].how.strength = GetRecommendedDenoise(Val(cur.iso))
                 /\ cur.iso = cur.facts.iso
            ELSE /\ cur.calls[k].how.estimated
                 /\ cur.calls[k].how.strength = "auto"

\* C3's case: a file with a profile and ISO 800 was denoised under --denoise auto
C3_Witness ==
    /\ pc = "enhance"
    /\ ~IsNone(cur.profile)
    /\ Val(denoiser).strength = "auto"
    /\ cur.iso = Some(800)
    /\ cur.calls[Len(cur.calls)].stage = "denoise"
    /\ cur.calls[Len(cur.calls)].how.strength = "light"

\* C5 as stated: with no explicit selection, the registered profile is resolved
\* for a file if and only if CameraProfile.matches holds of the file's make and
\* model, and else no profile is resolved.
C5_DetectionAgreesWithMatches ==
    (pc = "get_iso" /\ IsNone(camera_profile)) =>
        LET exif  == ReadExif(cur.facts)
            make  == GetOr(exif.Make, S_Empty)
            model == GetOr(exif.Model, S_Empty)
        IN  \A id \in DOMAIN CAMERAS :
                (cur.profile = Some(CAMERAS[id])) <=> Matches(CAMERAS[id], make, model)

\* C5, amended: with no explicit selection, the registered profile is resolved
\* for a file if and only if CameraProfile.matches holds of the file's make and
\* model and the upper-cased model does not contain 'II' (detect_camera's own
\* table decides, case-insensitively: 'SONY' in the make, 'RX1R' but not 'II' in
\* the model); for a model that contains 'II' matches holds and no profile is
\* resolved; in every other case no profile is resolved.
C5_DetectionIsMatchesWithoutII ==
    (pc = "get_iso" /\ IsNone(camera_profile)) =>
        LET exif  == ReadExif(cur.facts)
            make  == GetOr(exif.Make, S_Empty)
            model == GetOr(exif.Model, S_Empty)
        IN  /\ \A id \in DOMAIN CAMERAS :
                  (cur.profile = Some(CAMERAS[id]))
                      <=> (Matches(CAMERAS[id], make, model)
                           /\ ~Contains(S_II, Upper(model)))
            /\ IsNone(cur.profile) \/ \E id \in DOMAIN CAMERAS : cur.profile = Some(CAMERAS[id])

\* C5's case: auto-detection resolved the profile from lower-case metadata
C5_Witness ==
    /\ pc = "get_iso"
    /\ IsNone(camera_profile)
    /\ cur.facts.model = <<"d","s","c","-","r","x","1","r">>
    /\ cur.facts.make = <<"s","o","n","y"," ","c","o","r","p">>
    /\ cur.profile = Some(SonyRX1R)

----------------------------------------------------------------------------
(* The ISO ladder on its own: every ISO up to MaxIso *)

MaxIso == 12800

\* The batch driver's variables while a function or a stage is examined alone
BatchIdle ==
    /\ args = [ camera |-> None, cameras |-> FALSE, denoise |-> "auto", sharpen |-> 100 ]
    /\ input_exists = TRUE
    /\ raw_files = 0
    /\ pc = "idle"
    /\ status = None
    /\ printed = << >>
    /\ camera_profile = None
    /\ denoiser = None
    /\ idx = 0
    /\ successful = 0
    /\ failed = 0
    /\ attempted = << >>
    /\ reported = << >>
    /\ cur = NoFile

InitLadder ==
    /\ BatchIdle
    /\ probe \in { [ iso |-> i, recommended |-> None ] : i \in 0..MaxIso }
    /\ img = None
    /\ res = None

\* recommended = camera_profile.get_recommended_denoise(iso)
Recommend ==
    /\ ~IsNone(probe)
    /\ IsNone(probe.recommended)
    /\ probe' = [probe EXCEPT !.recommended = Some(GetRecommendedDenoise(probe.iso))]
    /\ UNCHANGED <<batchVars, img, res>>

SpecLadder == InitLadder /\ [][Recommend]_vars

\* The strengths in increasing order
Rank(s) == CASE s = "off" -> 0 [] s = "light" -> 1 [] s = "medium" -> 2 [] s = "strong" -> 3

\* C4: get_recommended_denoise returns 'off' exactly when iso <= 400, 'light'
\* exactly when 400 < iso <= 1600, 'medium' exactly when 1600 < iso <= 6400 and
\* 'strong' exactly when iso > 6400; it returns one of the four for every ISO and
\* never a lower strength for a higher ISO (100 -> off, 800 -> light,
\* 3200 -> medium, 12800 -> strong).
C4_Ladder ==
    (~IsNone(probe) /\ ~IsNone(probe.recommended)) =>
        LET iso == probe.iso
            r   == Val(probe.recommended)
        IN  /\ r \in {"off", "light", "medium", "strong"}
            /\ r = "off" <=> iso <= 400
            /\ r = "light" <=> (400 < iso /\ iso <= 1600)
            /\ r = "medium" <=> (1600 < iso /\ iso <= 6400)
            /\ r = "strong" <=> iso > 6400
            /\ Rank(r) <= Rank(GetRecommendedDenoise(iso + 1))
            /\ iso = 100 => r = "off"
            /\ iso = 800 => r = "light"
            /\ iso = 3200 => r = "medium"
            /\ iso = 12800 => r = "strong"

\* C4's case: the ladder was evaluated at the last ISO of a rung
C4_Witness ==
    /\ ~IsNone(probe)
    /\ probe.iso = 6400
    /\ probe.recommended = Some("medium")

----------------------------------------------------------------------------
(* Numbers.  A float32 in [0, 1] scale is kept as an integer number of      *)
(* 1/Q: Q is a multiple of 255 and of 65535, so that v / max_val is exact   *)
(* for both bit depths, and even, so that 0.5 is exact.  Products are       *)
(* floored to a multiple of 1/Q.  A float is [nan, v]: NaN, or v / Q.       *)

Q == 131070

Max(a, b) == IF a >= b THEN a ELSE b
Min(a, b) == IF a <= b THEN a ELSE b
Abs(a) == IF a < 0 THEN -a ELSE a

\* floor(a * b / d) for d > 0, without leaving 32 bits: a = 512 * a1 + a0
MulDiv(a, b, d) ==
    LET a1 == a \div 512
        a0 == a % 512
        X  == a1 * b
    IN  512 * (X \div d) + (512 * (X % d) + a0 * b) \div d

\* the product of two floats, in units of 1/Q
MulQ(a, b) == MulDiv(a, b, Q)

\* floor(sqrt(n)) for 0 <= n
RECURSIVE ISqrt(_)
ISqrt(n) ==
    IF n < 2 THEN n
    ELSE LET s == 2 * ISqrt(n \div 4)
         IN  IF (s + 1) * (s + 1) <= n THEN s + 1 ELSE s

\* np.sqrt of a float a >= 0, in units of 1/Q: sqrt(a * Q), by two Newton
\* steps from floor(sqrt(4096 * a)) * sqrt(Q) / 64
SqrtQ(a) ==
    IF a <= 0 THEN 0
    ELSE LET r0 == Max(1, (ISqrt(a * 4096) * 362) \div 64)
             r1 == (r0 + MulDiv(a, Q, r0)) \div 2
             r2 == (r1 + MulDiv(a, Q, r1)) \div 2
         IN  IF MulDiv(r2, r2, Q) > a THEN r2 - 1 ELSE r2

NaN == [ nan |-> TRUE, v |-> 0 ]
Num(v) == [ nan |-> FALSE, v |-> v ]

\* np.clip(x, 0, 1): NaN stays NaN
Clip01(f) == IF f.nan THEN f ELSE Num(Max(0, Min(Q, f.v)))

\* x.astype(float) truncated toward zero: trunc(a * b / d), d > 0, b >= 0
TruncMulDiv(a, b, d) == IF a < 0 THEN -MulDiv(-a, b, d) ELSE MulDiv(a, b, d)

----------------------------------------------------------------------------
(* Rasters.  A raster is observed at one pixel: dtype and shape are the     *)
(* array's, `at' is the pixel's (row, column) and px its (R, G, B).         *)

DTypes == {"uint8", "uint16"}

\* max_val = 65535 if original_dtype == np.uint16 else 255
MaxVal(dtype) == IF dtype = "uint16" THEN 65535 ELSE 255

Channels == 1..3

Raster(dtype, shape, at, px) ==
    [ dtype |-> dtype, shape |-> shape, at |-> at, px |-> px ]

\* A float -> unsigned conversion made by a stage: the value handed to
\* astype (NaN, or the number truncated toward zero) and the target's maximum
Cast(f, m) ==
    [ nan |-> f.nan, v |-> IF f.nan THEN 0 ELSE TruncMulDiv(f.v, m, Q), max |-> m ]

CastInRange(c) == ~c.nan /\ 0 <= c.v /\ c.v <= c.max

\* The integer astype produces.  Converting NaN or a number outside the
\* target's range is undefined in C: the result is whichever of the target's
\* values the build produces, ub being that choice
AsType(c, ub) == IF CastInRange(c) THEN c.v ELSE ub * c.max

UndefinedCasts == {0, 1}

\* image.astype(np.float32) / max_val, in units of 1/Q (exact: max_val | Q)
Normalize(v, dtype) == v * (Q \div MaxVal(dtype))

----------------------------------------------------------------------------
(* core/enhance.py.  Enhancer parameters are in hundredths (contrast 110 is *)
(* 1.1), the exposure in whole stops.                                       *)

\* line 37: img * (2 ** self.exposure)
Exposure(f, ev) ==
    IF f.nan THEN NaN
    ELSE Num(IF ev >= 0 THEN f.v * (2 ^ ev) ELSE f.v \div (2 ^ (-ev)))

\* line 42: img + self.shadows * 0.1 * (1.0 - img) * (1.0 - img)
ShadowLift(f, shadows) ==
    IF f.nan THEN NaN
    ELSE Num(f.v + MulDiv(MulQ(Q - f.v, Q - f.v), shadows, 1000))

\* m * r^k
RECURSIVE TimesPower(_, _, _)
TimesPower(m, r, k) == IF k <= 0 THEN m ELSE MulQ(TimesPower(m, r, k - 1), r)

\* base ** (1.0 + highlights * 0.5) as np.power computes it on floats, for
\* highlights a multiple of 1.0 (k = highlights, the exponent is 1 + k/2): a
\* negative base with a non-integer exponent gives NaN
Power(base, highlights) ==
    LET k == highlights \div 100
        m == Abs(base)
        mag == TimesPower(m, SqrtQ(m), k)
    IN  IF base < 0 /\ k % 2 = 1 THEN NaN
        ELSE IF base < 0 /\ (1 + k \div 2) % 2 = 1 THEN Num(-mag)
        ELSE Num(mag)

\* line 47: 1.0 - (1.0 - img) ** (1.0 + self.highlights * 0.5)
HighlightCompress(f, highlights) ==
    LET p == IF f.nan THEN NaN ELSE Power(Q - f.v, highlights)
    IN  IF p.nan THEN NaN ELSE Num(Q - p.v)

\* line 51: (img - 0.5) * self.contrast + 0.5
Contrast(f, contrast) ==
    IF f.nan THEN NaN
    ELSE Num(MulDiv(f.v - Q \div 2, contrast, 100) + Q \div 2)

\* sin(pi * x) in units of 1/Q (Bhaskara's rational approximation, which is
\* exact at 0, 1/2 and 1 and odd-periodic like the sine)
SinPi(v) ==
    LET t == v % (2 * Q)
        u == IF t <= Q THEN t ELSE t - Q
        p == MulQ(u, Q - u)
        s == MulDiv(16 * p, Q, 5 * Q - 4 * p)
    IN  IF t <= Q THEN s ELSE -s

\* lines 74-77: img + curve_intensity * np.sin(np.pi * img), intensity 0.05
ApplySCurve(f) == IF f.nan THEN NaN ELSE Num(f.v + SinPi(f.v) \div 20)

Max3(t) == Max(t[1], Max(t[2], t[3]))
Min3(t) == Min(t[1], Min(t[2], t[3]))

\* cv2.cvtColor RGB2HSV on 8 bits: the saturation channel, 255 * (V - min) / V
HsvSaturation(rgb) ==
    LET V == Max3(rgb)
    IN  IF V = 0 THEN 0 ELSE (255 * (V - Min3(rgb)) + V \div 2) \div V

\* cv2.cvtColor HSV2RGB on 8 bits for the hue and value of rgb and saturation
\* s: each channel moves from V toward its place at full saturation
HsvToRgb(rgb, s) ==
    LET V == Max3(rgb)
        d == 255 * (V - Min3(rgb))
    IN  [ c \in Channels |->
            IF d = 0 THEN V
            ELSE V - (V * s * (V - rgb[c]) + d \div 2) \div d ]

\* lines 65-72, _apply_saturation: to 8 bits, HSV, S * saturation clipped to
\* 255, back to RGB, / 255.0
ApplySaturation(rgbf, saturation, ub) ==
    LET casts == [ c \in Channels |-> Cast(Clip01(rgbf[c]), 255) ]
        img_8bit == [ c \in Channels |-> AsType(casts[c], ub) ]
        s == Min(255, Max(0, (HsvSaturation(img_8bit) * saturation) \div 100))
        rgb == HsvToRgb(img_8bit, s)
    IN  [ img |-> [ c \in Channels |-> Num(Normalize(rgb[c], "uint8")) ],
          casts |-> casts ]

EnhancerSteps == <<"exposure", "shadows", "highlights", "contrast", "saturation", "curve">>

\* A mutant of the guards: shadow lift and highlight compression run for
\* every non-zero amount
EnhancerRuns_Nonzero(e) ==
    [ s \in { EnhancerSteps[i] : i \in 1..6 } |->
        CASE s = "exposure" -> e.exposure # 0
          [] s = "shadows" -> e.shadows # 0
          [] s = "highlights" -> e.highlights # 0
          [] s = "contrast" -> e.contrast # 100
          [] s = "saturation" -> e.saturation # 100
          [] s = "curve" -> e.apply_curve ]

\* The guards of lines 36, 40, 45, 50, 54 and 58: which steps run
EnhancerRuns(e) ==
    [ s \in { EnhancerSteps[i] : i \in 1..6 } |->
        CASE s = "exposure" -> e.exposure # 0
          [] s = "shadows" -> e.shadows > 0
          [] s = "highlights" -> e.highlights > 0
          [] s = "contrast" -> e.contrast # 100
          [] s = "saturation" -> e.saturation # 100
          [] s = "curve" -> e.apply_curve ]

\* Enhancer.apply(image), lines 27-63; steps: the steps that ran, casts: the
\* conversions to integers
Enhancer_apply(e, image, ub) ==
    LET max_val == MaxVal(image.dtype)
        run == EnhancerRuns(e)
        img0 == [ c \in Channels |-> Num(Normalize(image.px[c], image.dtype)) ]
        img1 == IF run["exposure"]
                THEN [ c \in Channels |-> Exposure(img0[c], e.exposure) ]
                ELSE img0
        img2 == IF run["shadows"]
                THEN [ c \in Channels |-> ShadowLift(img1[c], e.shadows) ]
                ELSE img1
        img3 == IF run["highlights"]
                THEN [ c \in Channels |-> HighlightCompress(img2[c], e.highlights) ]
                ELSE img2
        img4 == IF run["contrast"]
                THEN [ c \in Channels |-> Contrast(img3[c], e.contrast) ]
                ELSE img3
        sat  == ApplySaturation(img4, e.saturation, ub)
        img5 == IF run["saturation"] THEN sat.img ELSE img4
        img6 == IF run["curve"]
                THEN [ c \in Channels |-> ApplySCurve(img5[c]) ]
                ELSE img5
        last == [ c \in Channels |-> Cast(Clip01(img6[c]), max_val) ]
    IN  [ output |-> Some(Raster(image.dtype, image.shape, image.at,
                                 [ c \in Channels |-> AsType(last[c], ub) ])),
          raised |-> None,
          casts |-> (IF run["saturation"] THEN sat.casts ELSE << >>) \o last,
          steps |-> SelectSeq(EnhancerSteps, LAMBDA s : run[s]) ]

----------------------------------------------------------------------------
(* Library calls.  The raster is observed at one pixel, so what OpenCV      *)
(* returns there depends on pixels the model does not hold.  Each call's    *)
(* result is chosen among the outcomes the call can have: the neighbourhood *)
(* looks like the pixel ("same"), is black ("dark") or is white ("bright"). *)

Lib == {"same", "dark", "bright"}

LibValue(choice, v, m) ==
    CASE choice = "same" -> v
      [] choice = "dark" -> 0
      [] choice = "bright" -> m

\* The raster has one pixel: every neighbourhood repeats it
OnePixel(image) == image.shape[1] = 1 /\ image.shape[2] = 1

\* What a library call can return for this raster
LibFor(image) == IF OnePixel(image) THEN {"same"} ELSE Lib

\* cv2.GaussianBlur(x, (3, 3), 0.5) at the pixel: the kernel's centre weight
\* is 0.619, the rest falls on the neighbours, whose weighted mean is n
GaussianBlur3(v, n) == (619 * v + 381 * n) \div 1000

\* numpy broadcasting of two shapes of rank 3 (equal, or 1, in every axis)
Broadcast(s, t) == [ i \in 1..3 |-> IF s[i] = 1 THEN t[i] ELSE s[i] ]

\* The result of a stage: the raster returned (None when it raised), the
\* exception raised, the float -> integer conversions made, the steps run
Returned(output, casts, steps) ==
    [ output |-> Some(output), raised |-> None, casts |-> casts, steps |-> steps ]

Raised(exception, casts, steps) ==
    [ output |-> None, raised |-> Some(exception), casts |-> casts, steps |-> steps ]

\* A conversion of a float that is a number, already truncated
CastNum(v, m) == [ nan |-> FALSE, v |-> v, max |-> m ]

----------------------------------------------------------------------------
(* cameras/sony_rx1r.py: the five corrections, on floats in units of 1/Q    *)

\* lines 73-95, _correct_barrel_distortion: skipped when |k1| < 0.0001 (in
\* thousandths: k1 = 0); else the image goes through 8 bits and cv2.undistort,
\* which resamples (or fills the border with black)
CorrectBarrelDistortion(profile, f, lib) ==
    LET casts == [ c \in Channels |-> CastNum(TruncMulDiv(f.px[c], 255, Q), 255) ]
        img_uint == [ c \in Channels |-> AsType(casts[c], 0) ]
        undistorted == [ c \in Channels |-> LibValue(lib, img_uint[c], 255) ]
    IN  IF profile.barrel_distortion = 0
        THEN [ f |-> f, casts |-> << >>, ran |-> FALSE ]
        ELSE [ f |-> [f EXCEPT !.px = [ c \in Channels |-> Normalize(undistorted[c], "uint8") ]],
               casts |-> casts, ran |-> TRUE ]

\* np.linspace(-1, 1, w)[x]
XGradient(w, x) == IF w = 1 THEN -Q ELSE -Q + (2 * Q * x) \div (w - 1)

ClipQ(v) == Max(0, Min(Q, v))

\* lines 97-109, _correct_italian_flag
CorrectItalianFlag(profile, f) ==
    LET w == f.shape[2]
        x_gradient == XGradient(w, f.at[2])
        s == profile.italian_flag_strength
        correction == << -((x_gradient * s) \div 1000), 0, (x_gradient * s) \div 1000 >>
        luminance == (f.px[1] + f.px[2] + f.px[3]) \div 3
        midtone_mask == 4 * MulQ(luminance, Q - luminance)
    IN  [f EXCEPT !.px = [ c \in Channels |-> ClipQ(f.px[c] + MulQ(correction[c], midtone_mask)) ],
                  !.shape = Broadcast(f.shape, <<f.shape[1], f.shape[2], 1>>)]

\* dist ** 2 at pixel (y, x) of an h x w raster: the squared distance from the
\* centre (h / 2, w / 2) over the squared distance of the centre from (0, 0)
Dist2(h, w, y, x) ==
    (((2 * x - w) * (2 * x - w) + (2 * y - h) * (2 * y - h)) * Q) \div (w * w + h * h)

\* A mutant of _correct_vignette: the strength is not applied
CorrectVignette_Flat(profile, f) == f

\* lines 111-121, _correct_vignette: image * (1 + strength * dist ** 2), clipped
CorrectVignette(profile, f) ==
    LET correction == Q + (profile.vignette_strength
                             * Dist2(f.shape[1], f.shape[2], f.at[1], f.at[2])) \div 1000
    IN  [f EXCEPT !.px = [ c \in Channels |-> ClipQ(MulQ(f.px[c], correction)) ],
                  !.shape = Broadcast(f.shape, <<f.shape[1], f.shape[2], 1>>)]

\* lines 123-140, _correct_color_cast: red is changed first, and the green
\* dominance test reads the changed red
CorrectColorCast(profile, f) ==
    LET luminance == (299 * f.px[1] + 587 * f.px[2] + 114 * f.px[3]) \div 1000
        shadow_mask == ClipQ(Q - 2 * luminance)
        red == f.px[1] + (shadow_mask * profile.shadow_warmth) \div 1000
        green == f.px[2]
        green_dominant == green > f.px[3] /\ green > red
        blue == IF green_dominant
                THEN f.px[3] - (profile.green_blue_shift * green) \div 1000
                ELSE f.px[3]
    IN  [f EXCEPT !.px = << ClipQ(red), ClipQ(green), ClipQ(blue) >>]

\* np.clip((dist - 0.7) / 0.3, 0, 1) at pixel (y, x)
CornerMask(h, w, y, x) ==
    ClipQ(((SqrtQ(Dist2(h, w, y, x)) - (7 * Q) \div 10) * 10) \div 3)

\* corner_mask.max(): the largest mask value over the raster's pixels
CornerMaskMax(h, w) ==
    LET masks == { CornerMask(h, w, y, x) : y \in 0..(h - 1), x \in 0..(w - 1) }
    IN  CHOOSE m \in masks : \A n \in masks : n <= m

\* lines 142-161, _reduce_chromatic_aberration: no coefficient; skipped only
\* when no pixel has a mask of 0.01 or more; red and blue are blended toward
\* their 3x3 blur by the mask
ReduceChromaticAberration(f, lib) ==
    LET h == f.shape[1]
        w == f.shape[2]
        corner_mask == CornerMask(h, w, f.at[1], f.at[2])
        red_blur == GaussianBlur3(f.px[1], LibValue(lib, f.px[1], Q))
        blue_blur == GaussianBlur3(f.px[3], LibValue(lib, f.px[3], Q))
        red == MulQ(f.px[1], Q - corner_mask) + MulQ(red_blur, corner_mask)
        blue == MulQ(f.px[3], Q - corner_mask) + MulQ(blue_blur, corner_mask)
    IN  IF CornerMaskMax(h, w) * 100 < Q
        THEN [ f |-> f, ran |-> FALSE ]
        ELSE [ f |-> [f EXCEPT !.px = << red, f.px[2], blue >>], ran |-> TRUE ]

\* What the library calls of apply_corrections can return for this raster
CorrectionEnvs(profile, image) ==
    [ undistort : IF profile.barrel_distortion = 0 THEN {"same"} ELSE LibFor(image),
      blur : LibFor(image) ]

\* SonyRX1R.apply_corrections(image), lines 44-60
apply_corrections(profile, image, env) ==
    LET max_val == MaxVal(image.dtype)
        img0 == [ dtype |-> "float32", shape |-> image.shape, at |-> image.at,
                  px |-> [ c \in Channels |-> Normalize(image.px[c], image.dtype) ] ]
        barrel == CorrectBarrelDistortion(profile, img0, env.undistort)
        img2 == CorrectItalianFlag(profile, barrel.f)
        img3 == CorrectVignette(profile, img2)
        img4 == CorrectColorCast(profile, img3)
        ca == ReduceChromaticAberration(img4, env.blur)
        last == [ c \in Channels |-> CastNum(TruncMulDiv(ClipQ(ca.f.px[c]), max_val, Q), max_val) ]
    IN  Returned(Raster(image.dtype, ca.f.shape, image.at,
                        [ c \in Channels |-> AsType(last[c], 0) ]),
                 barrel.casts \o last,
                 (IF barrel.ran THEN <<"barrel_distortion">> ELSE << >>)
                   \o <<"italian_flag", "vignette", "color_cast">>
                   \o (IF ca.ran THEN <<"chromatic_aberration">> ELSE << >>))

----------------------------------------------------------------------------
(* core/denoise.py *)

\* lines 23-28, self._strength_params
StrengthParams(strength) ==
    CASE strength = "off" -> 0
      [] strength = "light" -> 3
      [] strength = "medium" -> 6
      [] strength = "strong" -> 10

\* lines 62-79, _estimate_noise_strength: sigma (in hundredths) is the median
\* absolute Laplacian of the grey image / 0.6745, a property of the whole raster
EstimateNoiseStrength(sigma) ==
    IF sigma < 500 THEN 2
    ELSE IF sigma < 1000 THEN 4
    ELSE IF sigma < 2000 THEN 7
    ELSE 10

\* The noise levels a raster can have, around each threshold
Sigmas == {0, 499, 500, 999, 1000, 1999, 2000}

\* The normalised edge mask at the pixel: no edge, half-way, on an edge
EdgeMasks == {0, Q \div 2, Q}

\* lines 81-101, _denoise_preserve_detail: two non-local-means results blended
\* by the edge mask, converted to uint8 without a clip
DenoisePreserveDetail(image_8bit, h, env) ==
    LET edge_mask == env.edge
        denoised_strong == [ c \in Channels |-> LibValue(env.nlm_strong, image_8bit.px[c], 255) ]
        denoised_light == [ c \in Channels |-> LibValue(env.nlm_light, image_8bit.px[c], 255) ]
        casts == [ c \in Channels |->
                     CastNum((denoised_strong[c] * (Q - edge_mask)
                                + denoised_light[c] * edge_mask) \div Q, 255) ]
    IN  [ arr |-> [ dtype |-> "uint8",
                    shape |-> Broadcast(image_8bit.shape,
                                        <<image_8bit.shape[1], image_8bit.shape[2], 1>>),
                    at |-> image_8bit.at,
                    px |-> [ c \in Channels |-> AsType(casts[c], 0) ] ],
          casts |-> casts,
          h_light |-> Max(2, h \div 2) ]

\* lines 103-109, _restore_detail_16bit: denoised + 0.3 * (original - blur of
\* the original), clipped to [0, 65535], as uint16
RestoreDetail16bit(original, denoised, lib) ==
    LET casts == [ c \in Channels |->
                     LET original_blur == GaussianBlur3(original.px[c],
                                                        LibValue(lib, original.px[c], 65535))
                         detail == original.px[c] - original_blur
                         result == denoised.px[c] + TruncMulDiv(detail, 3, 10)
                     IN  CastNum(Max(0, Min(65535, result)), 65535) ]
    IN  [ arr |-> [ dtype |-> "uint16", shape |-> denoised.shape, at |-> denoised.at,
                    px |-> [ c \in Channels |-> AsType(casts[c], 0) ] ],
          casts |-> casts ]

\* x.astype(dtype) of an unsigned integer array: the values modulo 2^bits
AsTypeInt(arr, dtype) ==
    [arr EXCEPT !.dtype = dtype,
                !.px = [ c \in Channels |-> arr.px[c] % (MaxVal(dtype) + 1) ]]

DenoiserConfigs == [ strength : Strengths, preserve_detail : BOOLEAN ]

\* What the library calls of Denoiser.apply can return for this raster
DenoiserEnvs(d, image) ==
    LET filters == d.strength # "off" /\ d.preserve_detail
    IN  [ sigma : IF d.strength = "auto" THEN Sigmas ELSE {0},
          edge : IF filters /\ ~OnePixel(image) THEN EdgeMasks ELSE {0},
          nlm_strong : IF filters THEN LibFor(image) ELSE {"same"},
          nlm_light : IF filters THEN LibFor(image) ELSE {"same"},
          blur : IF filters /\ image.dtype = "uint16" THEN LibFor(image) ELSE {"same"} ]

\* A mutant of Denoiser.apply: the result of the 8-bit filter is returned as
\* it is, without the 16-bit branch and the final astype
Denoiser_apply_EightBit(d, image, env) ==
    LET image_8bit == IF image.dtype = "uint16"
                      THEN [image EXCEPT !.dtype = "uint8",
                                         !.px = [ c \in Channels |-> image.px[c] \div 256 ]]
                      ELSE image
        h == IF d.strength = "auto" THEN EstimateNoiseStrength(env.sigma)
             ELSE StrengthParams(d.strength)
        filtered == DenoisePreserveDetail(image_8bit, h, env)
    IN  IF d.strength = "off" \/ h = 0 THEN Returned(image, << >>, << >>)
        ELSE IF ~d.preserve_detail THEN Raised("AttributeError", << >>, << >>)
        ELSE Returned(filtered.arr, filtered.casts, <<"preserve_detail">>)

\* A mutant of Denoiser.apply: 'off' is filtered like 'light' instead of
\* returning the image
Denoiser_apply_OffFilters(d, image, env) ==
    LET is_16bit == image.dtype = "uint16"
        image_8bit == IF is_16bit
                      THEN [image EXCEPT !.dtype = "uint8",
                                         !.px = [ c \in Channels |-> image.px[c] \div 256 ]]
                      ELSE image
        h == IF d.strength = "auto" THEN EstimateNoiseStrength(env.sigma)
             ELSE IF d.strength = "off" THEN StrengthParams("light")
             ELSE StrengthParams(d.strength)
        filtered == DenoisePreserveDetail(image_8bit, h, env)
        upscaled == [ AsTypeInt(filtered.arr, "uint16") EXCEPT
                        !.px = [ c \in Channels |-> (filtered.arr.px[c] * 256) % 65536 ] ]
        restored == RestoreDetail16bit(image, upscaled, env.blur)
        denoised == IF is_16bit THEN restored.arr ELSE filtered.arr
    IN  IF ~d.preserve_detail /\ d.strength # "off"
        THEN Raised("AttributeError", << >>, <<"standard">>)
        ELSE Returned(AsTypeInt(denoised, image.dtype),
                      filtered.casts \o (IF is_16bit THEN restored.casts ELSE << >>),
                      <<"preserve_detail">>)

\* Denoiser.apply(image), lines 30-60.  _denoise_standard (line 54) is not
\* defined anywhere in the class: the call raises AttributeError
Denoiser_apply(d, image, env) ==
    LET original_dtype == image.dtype
        is_16bit == original_dtype = "uint16"
        down == IF is_16bit
                THEN [ c \in Channels |-> CastNum(image.px[c] \div 256, 255) ]
                ELSE << >>
        image_8bit == IF is_16bit
                      THEN [image EXCEPT !.dtype = "uint8",
                                         !.px = [ c \in Channels |-> AsType(down[c], 0) ]]
                      ELSE image
        h == IF d.strength = "auto" THEN EstimateNoiseStrength(env.sigma)
             ELSE StrengthParams(d.strength)
        filtered == DenoisePreserveDetail(image_8bit, h, env)
        upscaled == [ AsTypeInt(filtered.arr, "uint16") EXCEPT
                        !.px = [ c \in Channels |-> (filtered.arr.px[c] * 256) % 65536 ] ]
        restored == RestoreDetail16bit(image, upscaled, env.blur)
        denoised == IF is_16bit THEN restored.arr ELSE filtered.arr
    IN  IF d.strength = "off" THEN Returned(image, << >>, << >>)
        ELSE IF h = 0 THEN Returned(image, down, << >>)
        ELSE IF ~d.preserve_detail THEN Raised("AttributeError", down, <<"standard">>)
        ELSE Returned(AsTypeInt(denoised, original_dtype),
                      down \o filtered.casts \o (IF is_16bit THEN restored.casts ELSE << >>),
                      <<"preserve_detail">>
                        \o (IF is_16bit THEN <<"upscale", "restore_detail">> ELSE << >>))

----------------------------------------------------------------------------
(* core/sharpen.py.  strength in hundredths; floats in raster units.        *)

\* The centre weight, in thousandths, of the Gaussian kernel of lines 33-36:
\* sigma = radius * 2, ksize = int(sigma * 3) | 1
KernelCentre(radius) == CASE radius = 1 -> 47 [] radius = 2 -> 12

SharpenerConfigs == [ strength : {0, 100, 300}, radius : {1, 2}, threshold : {0, 3} ]

\* What the library calls of Sharpener.apply can return for this raster
SharpenerEnvs(s, image) ==
    [ blur : IF s.strength = 0 THEN {"same"} ELSE LibFor(image),
      edge : IF s.strength = 0 \/ OnePixel(image) THEN {0} ELSE EdgeMasks ]

\* lines 31-50, _unsharp_mask_edge_aware, at the pixel
UnsharpMaskEdgeAware(s, image, max_val, env) ==
    LET cw == KernelCentre(s.radius)
        blurred == [ c \in Channels |->
                       (cw * image.px[c] + (1000 - cw) * LibValue(env.blur, image.px[c], max_val))
                         \div 1000 ]
        difference == [ c \in Channels |-> image.px[c] - blurred[c] ]
        gray == [ c \in Channels |-> CastNum((image.px[c] * 255) \div max_val, 255) ]
        threshold_scaled == s.threshold * (max_val \div 255)
        mask == Abs(difference[1]) + Abs(difference[2]) + Abs(difference[3])
                  > 3 * threshold_scaled
        combined_mask == IF mask THEN env.edge ELSE 0
        gain == MulDiv(Q + combined_mask, s.strength, 200)
    IN  [ px |-> [ c \in Channels |-> image.px[c] + MulDiv(difference[c], gain, Q) ],
          shape |-> Broadcast(image.shape, <<image.shape[1], image.shape[2], 1>>),
          casts |-> gray ]

\* Sharpener.apply(image), lines 18-29
Sharpener_apply(s, image, env) ==
    LET original_dtype == image.dtype
        max_val == MaxVal(original_dtype)
        sharpened == UnsharpMaskEdgeAware(s, image, max_val, env)
        last == [ c \in Channels |-> CastNum(Max(0, Min(max_val, sharpened.px[c])), max_val) ]
    IN  IF s.strength = 0 THEN Returned(image, << >>, << >>)
        ELSE Returned(Raster(original_dtype, sharpened.shape, image.at,
                             [ c \in Channels |-> AsType(last[c], 0) ]),
                      sharpened.casts \o last, <<"unsharp_mask">>)

----------------------------------------------------------------------------
(* The stages on rasters.  One stage is applied to one raster under one     *)
(* configuration: probe holds the stage and its configuration, img the      *)
(* raster it is given and res what the call produced.                       *)

MaxDim == 2

Shapes == { <<h, w, 3>> : h \in 1..MaxDim, w \in 1..MaxDim }

\* The pixels observed: the far corner (0, 0), the last pixel, the middle
Positions(shape) ==
    { <<0, 0>>, <<shape[1] - 1, shape[2] - 1>>, <<shape[1] \div 2, shape[2] \div 2>> }

Pixels(dtype) ==
    IF dtype = "uint8"
    THEN { <<0, 0, 0>>, <<255, 255, 255>>, <<128, 128, 128>>,
           <<200, 100, 10>>, <<60, 200, 40>>, <<30, 60, 220>> }
    ELSE { <<0, 0, 0>>, <<65535, 65535, 65535>>, <<32768, 32768, 32768>>,
           <<51400, 25700, 2570>>, <<15000, 52000, 10000>>, <<1, 65534, 255>> }

InputRasters ==
    UNION { { Raster(d, s, a, p) : a \in Positions(s), p \in Pixels(d) } :
            d \in DTypes, s \in Shapes }

\* A profile with every coefficient at 0, and one with every coefficient set
ZeroProfile ==
    [SonyRX1R EXCEPT !.name = "zero", !.barrel_distortion = 0, !.vignette_strength = 0]

TunedProfile ==
    [SonyRX1R EXCEPT !.name = "tuned", !.italian_flag_strength = 100,
                     !.shadow_warmth = -50, !.green_blue_shift = 50]

Profiles == { SonyRX1R, ZeroProfile, TunedProfile }

IdentityEnhancer ==
    [ contrast |-> 100, exposure |-> 0, saturation |-> 100,
      shadows |-> 0, highlights |-> 0, apply_curve |-> FALSE ]

EnhancerConfigs ==
    [ contrast : {100, 150}, exposure : {-1, 0, 1}, saturation : {100, 150},
      shadows : {-50, 0, 100}, highlights : {-50, 0, 100, 200}, apply_curve : BOOLEAN ]
      \cup { DefaultEnhancer }

StageConfig(stage, config) == [ stage |-> stage, config |-> config ]

StageConfigs ==
    { StageConfig("correct", p) : p \in Profiles }
      \cup { StageConfig("denoise", d) : d \in DenoiserConfigs }
      \cup { StageConfig("enhance", e) : e \in EnhancerConfigs }
      \cup { StageConfig("sharpen", s) : s \in SharpenerConfigs }

InitStages ==
    /\ BatchIdle
    /\ probe \in StageConfigs
    /\ img \in InputRasters
    /\ res = None

\* What a call left behind
Result(env, r) ==
    Some([ stage |-> probe.stage, config |-> probe.config, env |-> env,
           output |-> r.output, raised |-> r.raised, casts |-> r.casts,
           steps |-> r.steps ])

\* rgb = camera_profile.apply_corrections(rgb, iso=iso)
Correct ==
    /\ probe.stage = "correct"
    /\ res = None
    /\ \E env \in CorrectionEnvs(probe.config, img) :
           \E r \in { apply_corrections(probe.config, img, env) } : res' = Result(env, r)
    /\ UNCHANGED <<batchVars, probe, img>>

\* denoised = denoiser.apply(rgb)
Denoise ==
    /\ probe.stage = "denoise"
    /\ res = None
    /\ \E env \in DenoiserEnvs(probe.config, img) :
           \E r \in { Denoiser_apply(probe.config, img, env) } : res' = Result(env, r)
    /\ UNCHANGED <<batchVars, probe, img>>

\* enhanced = enhancer.apply(denoised); ub is looked at only by a conversion
\* that is undefined
Enhance ==
    /\ probe.stage = "enhance"
    /\ res = None
    /\ \E ub \in UndefinedCasts :
         \E r \in { Enhancer_apply(probe.config, img, ub) } :
             /\ ub = 0 \/ \E i \in 1..Len(r.casts) : ~CastInRange(r.casts[i])
             /\ res' = Result([ ub |-> ub ], r)
    /\ UNCHANGED <<batchVars, probe, img>>

\* sharpened = sharpener.apply(enhanced)
Sharpen ==
    /\ probe.stage = "sharpen"
    /\ res = None
    /\ \E env \in SharpenerEnvs(probe.config, img) :
           \E r \in { Sharpener_apply(probe.config, img, env) } : res' = Result(env, r)
    /\ UNCHANGED <<batchVars, probe, img>>

NextStages == Correct \/ Denoise \/ Enhance \/ Sharpen

SpecStages == InitStages /\ [][NextStages]_vars

\* Enhancer.apply alone: every configuration on the sample pixels, and the
\* identity configuration on every pixel value of both bit depths
GrayRaster(d, v) == Raster(d, <<1, 1, 3>>, <<0, 0>>, <<v, v, v>>)

InitEnhance ==
    /\ BatchIdle
    /\ res = None
    /\ \/ /\ probe \in { StageConfig("enhance", e) : e \in EnhancerConfigs }
          /\ img \in { r \in InputRasters : OnePixel(r) }
       \/ /\ probe = StageConfig("enhance", IdentityEnhancer)
          /\ \E d \in DTypes : \E v \in 0..MaxVal(d) : img = GrayRaster(d, v)

SpecEnhance == InitEnhance /\ [][Enhance]_vars

----------------------------------------------------------------------------
(* Claims about the stages *)

Acted == ~IsNone(res)

ResultOf(stage) == Acted /\ Val(res).stage = stage

ReturnedRaster == Acted /\ ~IsNone(Val(res).output)

AllCasts == { Val(res).casts[i] : i \in 1..Len(Val(res).casts) }

\* C7: every stage, for every input raster and configuration, hands only
\* numbers inside [0, max] of the target type to its integer conversions, so
\* that no output pixel is outside the range and none wraps.
C7_EveryConversionInRange ==
    Acted =>
      /\ \A c \in AllCasts : CastInRange(c)
      /\ ReturnedRaster =>
           \A c \in Channels :
             /\ 0 <= Val(Val(res).output).px[c]
             /\ Val(Val(res).output).px[c] <= MaxVal(Val(Val(res).output).dtype)

\* C8: a stage that returns a raster returns one with the height, width,
\* channel count and element type of the raster it was given.
C8_ShapeAndTypePreserved ==
    ReturnedRaster =>
      /\ Val(Val(res).output).shape = img.shape
      /\ Val(Val(res).output).dtype = img.dtype

\* A 16-bit raster went through the 8-bit filter, the upscale and the detail
\* restoration and came back as a raster
C8_Witness ==
    /\ ResultOf("denoise")
    /\ ReturnedRaster
    /\ img.dtype = "uint16"
    /\ img.shape = <<MaxDim, MaxDim, 3>>
    /\ Val(res).steps = <<"preserve_detail", "upscale", "restore_detail">>
    /\ Val(Val(res).output).px # img.px

AllCoefficientsZero(profile) ==
    /\ profile.barrel_distortion = 0
    /\ profile.italian_flag_strength = 0
    /\ profile.vignette_strength = 0
    /\ profile.shadow_warmth = 0
    /\ profile.green_blue_shift = 0

\* C9: apply_corrections with every coefficient of the profile at 0 returns a
\* raster equal to its input, for every input raster.
C9_ZeroCoefficientsAreIdentity ==
    (ResultOf("correct") /\ AllCoefficientsZero(Val(res).config)) =>
      Val(res).output = Some(img)

Ran(step) == \E i \in 1..Len(Val(res).steps) : Val(res).steps[i] = step

C11_DisabledStageIsIdentity ==
    /\ (ResultOf("denoise") /\ Val(res).config.strength = "off") =>
         /\ Val(res).output = Some(img)
         /\ Val(res).steps = << >>
    /\ (ResultOf("sharpen") /\ Val(res).config.strength = 0) =>
         /\ Val(res).output = Some(img)
         /\ Val(res).steps = << >>

\* A 16-bit raster whose values are no multiples of 256 came back unchanged
\* from a Denoiser that is 'off' with preserve_detail off
C11_Witness ==
    /\ ResultOf("denoise")
    /\ Val(res).config = [ strength |-> "off", preserve_detail |-> FALSE ]
    /\ img.dtype = "uint16"
    /\ img.px = <<1, 65534, 255>>
    /\ Val(res).output = Some(img)

\* C12: with 'auto' the estimated sigma is mapped to a filter strength by the
\* thresholds 5, 10 and 20: below 5 a strength strictly under that of 'light',
\* then the parameters that the concrete strengths 'light', 'medium' and
\* 'strong' use.
C12_AutoUsesTheConcreteStrengths ==
    (ResultOf("denoise") /\ ReturnedRaster /\ Val(res).config.strength = "auto") =>
      LET sigma == Val(res).env.sigma
          h == EstimateNoiseStrength(sigma)
      IN  /\ sigma < 500 => h < StrengthParams("light")
          /\ (500 <= sigma /\ sigma < 1000) => h = StrengthParams("light")
          /\ (1000 <= sigma /\ sigma < 2000) => h = StrengthParams("medium")
          /\ 2000 <= sigma => h = StrengthParams("strong")

----------------------------------------------------------------------------
(* Zero-sized rasters: height 0 or width 0, no pixel to observe.  numpy     *)
(* computes element-wise on an empty array and returns an empty array; an   *)
(* OpenCV call on an empty array fails its !src.empty() assertion and       *)
(* raises cv2.error; a reduction without identity (max) raises ValueError.  *)

EmptyRasters ==
    { Raster(d, s, None, << >>) :
        d \in DTypes,
        s \in { <<h, w, 3>> : h \in 0..MaxDim, w \in 0..MaxDim } \ Shapes }

\* cv2.undistort on an empty image: the binding's checks decide whether the
\* call raises or hands the empty array back
EmptyUndistort == {"raises", "returns"}

\* apply_corrections, lines 44-60, on an empty raster: the barrel step calls
\* OpenCV (lines 87-94) when |k1| >= 0.0001; the next three are element-wise;
\* corner_mask.max() (line 152) has nothing to reduce
apply_corrections_empty(profile, image, undistort) ==
    IF profile.barrel_distortion # 0 /\ undistort = "raises"
    THEN Raised("cv2.error", << >>, <<"barrel_distortion">>)
    ELSE Raised("ValueError", << >>,
                (IF profile.barrel_distortion # 0 THEN <<"barrel_distortion">> ELSE << >>)
                  \o <<"italian_flag", "vignette", "color_cast", "chromatic_aberration">>)

\* Denoiser.apply, lines 30-60, on an empty raster: 'off' returns the image;
\* 'auto' calls cv2.cvtColor (line 64); a concrete strength reaches line 52
\* (cv2.cvtColor, line 83) or line 54 (no _denoise_standard)
Denoiser_apply_empty(d, image) ==
    IF d.strength = "off" THEN Returned(image, << >>, << >>)
    ELSE IF d.strength = "auto" THEN Raised("cv2.error", << >>, <<"estimate">>)
    ELSE IF StrengthParams(d.strength) = 0 THEN Returned(image, << >>, << >>)
    ELSE IF d.preserve_detail THEN Raised("cv2.error", << >>, <<"preserve_detail">>)
    ELSE Raised("AttributeError", << >>, <<"standard">>)

\* Enhancer.apply, lines 27-63, on an empty raster: only _apply_saturation
\* calls OpenCV (line 68); every other step is element-wise
Enhancer_apply_empty(e, image) ==
    LET run == EnhancerRuns(e)
        before == SelectSeq(EnhancerSteps,
                            LAMBDA s : run[s] /\ s \in {"exposure", "shadows", "highlights",
                                                        "contrast", "saturation"})
    IN  IF run["saturation"] THEN Raised("cv2.error", << >>, before)
        ELSE Returned(image, << >>, SelectSeq(EnhancerSteps, LAMBDA s : run[s]))

\* Sharpener.apply, lines 18-29, on an empty raster: strength 0 returns the
\* image, else cv2.GaussianBlur (line 36) is the first call
Sharpener_apply_empty(s, image) ==
    IF s.strength = 0 THEN Returned(image, << >>, << >>)
    ELSE Raised("cv2.error", << >>, <<"unsharp_mask">>)

InitDegenerate ==
    /\ BatchIdle
    /\ probe \in StageConfigs
    /\ img \in EmptyRasters
    /\ res = None

\* One stage applied to a zero-sized raster
Degenerate ==
    /\ res = None
    /\ \E undistort \in EmptyUndistort :
         \E r \in { CASE probe.stage = "correct" ->
                           apply_corrections_empty(probe.config, img, undistort)
                      [] probe.stage = "denoise" -> Denoiser_apply_empty(probe.config, img)
                      [] probe.stage = "enhance" -> Enhancer_apply_empty(probe.config, img)
                      [] probe.stage = "sharpen" -> Sharpener_apply_empty(probe.config, img) } :
             res' = Result([ undistort |-> undistort ], r)
    /\ UNCHANGED <<batchVars, probe, img>>

SpecDegenerate == InitDegenerate /\ [][Degenerate]_vars

\* C13: a stage that receives a zero-sized raster ends in an error; no stage
\* returns a raster for such an input, whatever its configuration.
C13_EmptyRasterIsAnError ==
    Acted =>
      /\ IsNone(Val(res).output)
      /\ ~IsNone(Val(res).raised)

----------------------------------------------------------------------------
(* _correct_vignette on a uniform-gray raster under two strengths s1 < s2,  *)
(* observed at every pixel of the raster                                    *)

VignetteStrengths == {0, 150, 300, 1000}

GrayLevels(dtype) ==
    IF dtype = "uint8" THEN {0, 1, 128, 254, 255} ELSE {0, 257, 32768, 65535}

InitVignette ==
    /\ BatchIdle
    /\ res = None
    /\ \E a \in VignetteStrengths, b \in VignetteStrengths :
         /\ a < b
         /\ probe = StageConfig("vignette", [ s1 |-> a, s2 |-> b ])
    /\ \E d \in DTypes, s \in Shapes :
         \E y \in 0..(s[1] - 1), x \in 0..(s[2] - 1), g \in GrayLevels(d) :
             img = Raster(d, s, <<y, x>>, <<g, g, g>>)

\* img = image.astype(np.float32) / max_val, then _correct_vignette(img), once
\* with each strength
Vignette ==
    /\ probe.stage = "vignette"
    /\ res = None
    /\ LET f == [ dtype |-> "float32", shape |-> img.shape, at |-> img.at,
                  px |-> [ c \in Channels |-> Normalize(img.px[c], img.dtype) ] ]
           with(s) == CorrectVignette([SonyRX1R EXCEPT !.vignette_strength = s], f)
       IN  res' = Some([ stage |-> "vignette", config |-> probe.config, input |-> f,
                         low |-> with(probe.config.s1), high |-> with(probe.config.s2) ])
    /\ UNCHANGED <<batchVars, probe, img>>

SpecVignette == InitVignette /\ [][Vignette]_vars

AtCentre == img.at = <<img.shape[1] \div 2, img.shape[2] \div 2>>

AtCorner ==
    /\ img.at[1] \in {0, img.shape[1] - 1}
    /\ img.at[2] \in {0, img.shape[2] - 1}

\* dist ** 2 at the observed pixel
D2 == Dist2(img.shape[1], img.shape[2], img.at[1], img.at[2])

\* C14 as stated: on a uniform-gray input the centre pixel is unchanged and
\* the same under both strengths, and the corner pixels are strictly brighter
\* under the larger strength.
C14_CentreFixedCornersStrictlyBrighter ==
    ResultOf("vignette") =>
      /\ 0 <= D2 /\ D2 <= Q
      /\ AtCentre => /\ Val(res).low.px = Val(res).input.px
                     /\ Val(res).high.px = Val(res).input.px
      /\ AtCorner => \A c \in Channels : Val(res).high.px[c] > Val(res).low.px[c]

\* C14: the pixel is multiplied by 1 + strength * d^2 and clipped, 0 <= d <= 1
\* with d = 1 at pixel (0, 0); on a uniform-gray input no pixel gets darker,
\* and none gets darker under the larger strength; a pixel at d = 0 is
\* unchanged under both, and the centre pixel (h // 2, w // 2) is at d = 0
\* exactly when height and width are even; a pixel at d > 0 that is not black
\* and is not clipped to 1 under s1 is strictly brighter under s2.
C14_MonotoneInStrength ==
    ResultOf("vignette") =>
      LET lo == Val(res).low.px
          hi == Val(res).high.px
          in == Val(res).input.px
      IN  /\ 0 <= D2 /\ D2 <= Q
          /\ img.at = <<0, 0>> => D2 = Q
          /\ AtCentre => (D2 = 0 <=> (img.shape[1] % 2 = 0 /\ img.shape[2] % 2 = 0))
          /\ \A c \in Channels :
               /\ in[c] <= lo[c] /\ lo[c] <= hi[c] /\ hi[c] <= Q
               /\ D2 = 0 => (lo[c] = in[c] /\ hi[c] = in[c])
               /\ (D2 > 0 /\ in[c] > 0 /\ lo[c] < Q) => hi[c] > lo[c]
               /\ Val(res).config.s1 = 0 => lo[c] = in[c]

\* A mid-gray corner pixel (0, 0) of the largest raster got strictly brighter
\* under the larger strength, without clipping
C14_Witness ==
    /\ ResultOf("vignette")
    /\ img.shape = <<MaxDim, MaxDim, 3>>
    /\ img.at = <<0, 0>>
    /\ img.px = <<128, 128, 128>>
    /\ Val(res).config = [ s1 |-> 150, s2 |-> 300 ]
    /\ Val(res).input.px[1] < Val(res).low.px[1]
    /\ Val(res).low.px[1] < Val(res).high.px[1]
    /\ Val(res).high.px[1] < Q


\* C16: every number Enhancer.apply hands to an integer conversion, the
\* re-quantization to the input's type included, is a defined number: no NaN
\* comes out of the highlight-compression power, whatever exposure and
\* shadow lift did before it.
C16_NoNaNReachesRequantization ==
    ResultOf("enhance") =>
      \A i \in 1..Len(Val(res).casts) : ~Val(res).casts[i].nan


\* C17: Denoiser.apply returns a raster for every strength in light, medium,
\* strong and auto, with preserve_detail on and with preserve_detail off.
C17_EveryConfigurationReturns ==
    (ResultOf("denoise") /\ Val(res).config.strength \in {"light", "medium", "strong", "auto"})
      => /\ ReturnedRaster
         /\ IsNone(Val(res).raised)

----------------------------------------------------------------------------
(* process_file, steps 2 to 5, run twice on the same raster with the same   *)
(* metadata, profile and processors.  A library call is a function of its   *)
(* arguments, so the second run meets the neighbourhood the first one met;  *)
(* a conversion that is undefined is chosen anew in each run.               *)

HotEnhancer == [IdentityEnhancer EXCEPT !.exposure = 1, !.highlights = 100]

PipelineConfigs ==
    [ camera_profile : { None, Some(SonyRX1R) },
      iso : { None, Some(800) },
      denoiser : [ strength : {"off", "auto"}, preserve_detail : {TRUE} ],
      enhancer : { DefaultEnhancer, HotEnhancer },
      sharpener : [ strength : {0, 100}, radius : {1}, threshold : {3} ] ]

\* What the library calls of one run can meet on this raster
PipelineEnvs(cfg, image) ==
    [ lib : LibFor(image),
      edge : IF OnePixel(image) THEN {0} ELSE EdgeMasks,
      sigma : IF cfg.denoiser.strength = "auto"
                 /\ (IsNone(cfg.camera_profile) \/ ~TruthyInt(cfg.iso))
              THEN Sigmas ELSE {0} ]

\* lines 88-93: the Denoiser process_file applies, and the library's answers
\* to each stage
PipelineDenoiser(cfg) ==
    SmartDenoiser(cfg.camera_profile,
                  IF ~IsNone(cfg.camera_profile) THEN cfg.iso ELSE None,
                  cfg.denoiser)

CorrectionEnv(env) == [ undistort |-> env.lib, blur |-> env.lib ]

DenoiserEnv(env) ==
    [ sigma |-> env.sigma, edge |-> env.edge, nlm_strong |-> env.lib,
      nlm_light |-> env.lib, blur |-> env.lib ]

SharpenerEnv(env) == [ blur |-> env.lib, edge |-> env.edge ]

\* revive.py lines 84-99: the raster process_file hands to save_image (with
\* preserve_detail on, no stage of the model raises on a raster with pixels).
\* Each stage's raster is computed once and handed on: rgb, denoised, enhanced.
process_file_stages(cfg, image, env, ub) ==
    CHOOSE sharpened \in
      { Sharpener_apply(cfg.sharpener, enhanced, SharpenerEnv(env)).output :
          enhanced \in
            { Val(Enhancer_apply(cfg.enhancer, denoised, ub).output) :
                denoised \in
                  { Val(Denoiser_apply(PipelineDenoiser(cfg), rgb, DenoiserEnv(env)).output) :
                      rgb \in
                        { IF IsNone(cfg.camera_profile)
                          THEN image
                          ELSE Val(apply_corrections(Val(cfg.camera_profile), image,
                                                     CorrectionEnv(env)).output) } } } } :
      TRUE

InitTwice ==
    /\ BatchIdle
    /\ probe \in { StageConfig("pipeline", cfg) : cfg \in PipelineConfigs }
    /\ img \in { r \in InputRasters :
                   OnePixel(r) \/ (r.shape = <<MaxDim, MaxDim, 3>> /\ r.at = <<0, 0>>) }
    /\ res = None

\* The first run on the raster
FirstRun ==
    /\ probe.stage = "pipeline"
    /\ res = None
    /\ \E env \in PipelineEnvs(probe.config, img), ub \in UndefinedCasts :
         \E r \in { process_file_stages(probe.config, img, env, ub) } :
             res' = Some([ stage |-> "pipeline", config |-> probe.config, env |-> env,
                           runs |-> << r >> ])
    /\ UNCHANGED <<batchVars, probe, img>>

\* The second run, on the same raster with the same processors
SecondRun ==
    /\ ResultOf("pipeline")
    /\ Len(Val(res).runs) = 1
    /\ \E ub \in UndefinedCasts :
         \E r \in { process_file_stages(probe.config, img, Val(res).env, ub) } :
             res' = Some([ Val(res) EXCEPT !.runs = Append(@, r) ])
    /\ UNCHANGED <<batchVars, probe, img>>

NextTwice == FirstRun \/ SecondRun

SpecTwice == InitTwice /\ [][NextTwice]_vars

----------------------------------------------------------------------------
(* The processors and the buffers over a batch.  main constructs the        *)
(* Denoiser, the Enhancer and the Sharpener once and hands the same objects *)
(* to process_file for every file; probe holds the objects as they are now, *)
(* res what they were at construction and what each file did.  A raster is  *)
(* the buffer that holds it: a numpy operation that computes a new array    *)
(* takes a new buffer, "return image" hands back the buffer it was given,   *)
(* and an assignment to image[...] writes into the buffer.                  *)

FrameObjects ==
    [ camera_profile : { None, Some(SonyRX1R) },
      denoiser : [ strength : {"off", "medium", "auto"}, preserve_detail : {TRUE} ],
      enhancer : { DefaultEnhancer, HotEnhancer },
      sharpener : [ strength : {0, 100}, radius : {1}, threshold : {3} ] ]

\* No buffer yet
NoBuffers == [ h |-> [ next |-> 1, written |-> {} ], b |-> 0 ]

\* The result is a new array
NewArray(s) == [ h |-> [s.h EXCEPT !.next = @ + 1], b |-> s.h.next ]

\* image[:, :, c] = ...: the buffer at hand is written
WriteInPlace(s) == [s EXCEPT !.h.written = @ \cup {s.b}]

BufferCall(stage, before, after) ==
    [ stage |-> stage, input |-> before.b, output |-> after.b,
      written |-> after.h.written \ before.h.written ]

\* SonyRX1R.apply_corrections, lines 44-60, on buffers
apply_corrections_buffers(profile, shape, s) ==
    LET img0 == NewArray(s)                              \* line 50
        img1 == IF profile.barrel_distortion = 0         \* lines 78-79, 93-95
                THEN img0 ELSE NewArray(img0)
        img2 == NewArray(img1)                           \* line 109
        img3 == NewArray(img2)                           \* line 121
        img4 == NewArray(WriteInPlace(NewArray(img3)))   \* lines 125, 131, 136, 140
        img5 == IF CornerMaskMax(shape[1], shape[2]) * 100 < Q
                THEN img4                                \* lines 152-153
                ELSE WriteInPlace(img4)                  \* lines 158-159
    IN  NewArray(img5)                                   \* lines 59-60

\* Denoiser.apply, lines 30-60, on buffers (h is 0 for no strength but 'off')
Denoiser_apply_buffers(d, s) ==
    IF d.strength = "off" THEN s ELSE NewArray(s)

\* Enhancer.apply, lines 27-63, on buffers: _apply_saturation writes into its
\* own hsv array
Enhancer_apply_buffers(e, s) ==
    LET img0 == NewArray(s)
        img5 == IF e.saturation # 100 THEN NewArray(WriteInPlace(NewArray(img0))) ELSE img0
    IN  NewArray(img5)

\* Sharpener.apply, lines 18-29, on buffers
Sharpener_apply_buffers(sh, s) ==
    IF sh.strength = 0 THEN s ELSE NewArray(s)

\* A mutant of process_file: the recommendation is written into the Denoiser
\* it was handed instead of a new one
process_file_objects_Leaks(objects, file_profile, exif_iso, shape, decoded) ==
    LET iso == IF ~IsNone(file_profile) THEN exif_iso ELSE None
        d == SmartDenoiser(file_profile, iso, objects.denoiser)
    IN  [ objects |-> [objects EXCEPT !.denoiser = d],
          iso |-> iso,
          used |-> IF decoded THEN Some(d.strength) ELSE None,
          calls |-> << >> ]

\* process_file, lines 76-110: what it leaves of the objects it was handed,
\* the strength its denoise step used and what each stage did to the buffers
process_file_objects(objects, file_profile, exif_iso, shape, decoded) ==
    LET iso == IF ~IsNone(file_profile) THEN exif_iso ELSE None
        rgb == NewArray(NoBuffers)
        corrected == IF ~IsNone(file_profile)
                     THEN apply_corrections_buffers(Val(file_profile), shape, rgb)
                     ELSE rgb
        smart_denoiser == SmartDenoiser(file_profile, iso, objects.denoiser)
        denoised == Denoiser_apply_buffers(smart_denoiser, corrected)
        enhanced == Enhancer_apply_buffers(objects.enhancer, denoised)
        sharpened == Sharpener_apply_buffers(objects.sharpener, enhanced)
    IN  [ objects |-> objects,
          iso |-> iso,
          used |-> IF decoded THEN Some(smart_denoiser.strength) ELSE None,
          calls |-> IF ~decoded THEN << >>
                    ELSE (IF ~IsNone(file_profile)
                          THEN << BufferCall("correct", rgb, corrected) >> ELSE << >>)
                         \o << BufferCall("denoise", corrected, denoised),
                               BufferCall("enhance", denoised, enhanced),
                               BufferCall("sharpen", enhanced, sharpened) >> ]

InitFrame ==
    /\ BatchIdle
    /\ \E objects \in FrameObjects :
         /\ probe = StageConfig("batch", objects)
         /\ res = Some([ stage |-> "batch", config |-> objects, files |-> << >> ])
    /\ img \in { Raster("uint16", s, <<0, 0>>, <<0, 0, 0>>) :
                   s \in { <<1, 1, 3>>, <<MaxDim, MaxDim, 3>> } }

\* main, lines 217-244: one turn of the loop, with the file's EXIF ISO, the
\* profile detected for it and whether the decoder read it
ProcessFile ==
    /\ ResultOf("batch")
    /\ Len(Val(res).files) < MaxFiles
    /\ \E exif_iso \in { None, Some(0), Some(800) }, detected \in { None, Some(SonyRX1R) },
          decoded \in BOOLEAN :
         LET file_camera_profile == IF ~IsNone(probe.config.camera_profile)
                                    THEN probe.config.camera_profile
                                    ELSE detected
         IN  \E r \in { process_file_objects(probe.config, file_camera_profile, exif_iso,
                                             img.shape, decoded) } :
                 /\ probe' = [probe EXCEPT !.config = r.objects]
                 /\ res' = Some([ Val(res) EXCEPT !.files =
                                    Append(@, [ profile |-> file_camera_profile,
                                                iso |-> r.iso, decoded |-> decoded,
                                                used |-> r.used, calls |-> r.calls ]) ])
    /\ UNCHANGED <<batchVars, img>>

SpecFrame == InitFrame /\ [][ProcessFile]_vars

\* C18: after any sequence of files the Denoiser, the Enhancer, the Sharpener
\* and the explicit profile are what they were at construction; no stage
\* call wrote into the buffer it was given; and the strength a file's denoise
\* step used follows from the strength at construction and the file's own
\* profile and ISO alone, whatever was recommended for the files before it.
C18_ProcessorsAndInputsUnchanged ==
    ResultOf("batch") =>
      LET constructed == Val(res).config
          files == Val(res).files
      IN  /\ probe.config = constructed
          /\ \A k \in 1..Len(files) :
               /\ \A i \in 1..Len(files[k].calls) :
                    files[k].calls[i].input \notin files[k].calls[i].written
               /\ files[k].decoded =>
                    files[k].used =
                      Some(IF /\ ~IsNone(files[k].profile)
                              /\ TruthyInt(files[k].iso)
                              /\ constructed.denoiser.strength = "auto"
                           THEN GetRecommendedDenoise(Val(files[k].iso))
                           ELSE constructed.denoiser.strength)

\* A file whose ISO made the profile recommend 'light' was followed by a file
\* without ISO, which ran with the batch's 'auto'; the correction of both
\* wrote in place, into a buffer of its own
C18_Witness ==
    /\ ResultOf("batch")
    /\ Len(Val(res).files) = 2
    /\ Val(res).config.denoiser.strength = "auto"
    /\ Val(res).files[1].iso = Some(800)
    /\ Val(res).files[1].used = Some("light")
    /\ Val(res).files[2].iso = None
    /\ Val(res).files[2].used = Some("auto")
    /\ probe.config.denoiser.strength = "auto"
    /\ \A k \in 1..2 :
         /\ Val(res).files[k].calls[1].stage = "correct"
         /\ Val(res).files[k].calls[1].written # {}

====
